---- MODULE Spec2Model ----
(***************************************************************************)
(* configloader: a ConfigLoader fills a target struct from a queue of      *)
(* hooks (JSON file, command line flags, environment variables).           *)
(*                                                                         *)
(* Strings are sequences of one-character strings, so that upper-casing,   *)
(* concatenation, flag tokenising and numeral parsing are computed.        *)
(***************************************************************************)
EXTENDS Integers, Sequences, FiniteSets, TLC

(* ------------------------------------------------------------------ *)
(* Characters and strings                                              *)
(* ------------------------------------------------------------------ *)

LowerChars == <<"a","b","c","d","e","f","g","h","i","j","k","l","m",
                "n","o","p","q","r","s","t","u","v","w","x","y","z">>

UpperChars == <<"A","B","C","D","E","F","G","H","I","J","K","L","M",
                "N","O","P","Q","R","S","T","U","V","W","X","Y","Z">>

DigitChars == <<"0","1","2","3","4","5","6","7","8","9">>

IsDigit(c) == \E i \in 1..10 : DigitChars[i] = c

DigitVal(c) == (CHOOSE i \in 1..10 : DigitChars[i] = c) - 1

AllDigits(s) == \A i \in 1..Len(s) : IsDigit(s[i])

\* strings.ToUpper on one character
ToUpperChar(c) ==
    IF \E i \in 1..26 : LowerChars[i] = c
    THEN UpperChars[CHOOSE i \in 1..26 : LowerChars[i] = c]
    ELSE c

\* strings.ToUpper
ToUpper(s) == [i \in 1..Len(s) |-> ToUpperChar(s[i])]

\* Type names are TLA+ strings; field names, tags, arguments, environment
\* values and raw values, which the program computes on, are character
\* sequences.

RECURSIVE StripZeros(_)
StripZeros(ds) ==
    IF Len(ds) > 1 /\ ds[1] = "0" THEN StripZeros(Tail(ds)) ELSE ds

RECURSIVE NumVal(_)
\* the number a digit string denotes
NumVal(ds) ==
    IF ds = <<>> THEN 0
    ELSE NumVal(SubSeq(ds, 1, Len(ds) - 1)) * 10 + DigitVal(ds[Len(ds)])

RECURSIVE DigitsLess(_, _)
\* a < b for digit strings of equal length
DigitsLess(a, b) ==
    IF a = <<>> THEN FALSE
    ELSE IF a[1] # b[1] THEN DigitVal(a[1]) < DigitVal(b[1])
    ELSE DigitsLess(Tail(a), Tail(b))

\* a > b for digit strings without leading zeros
DigitsGreater(a, b) ==
    \/ Len(a) > Len(b)
    \/ Len(a) = Len(b) /\ DigitsLess(b, a)

MaxInt64Digits  == <<"9","2","2","3","3","7","2","0","3","6","8","5","4","7","7","5","8","0","7">>
MinInt64Digits  == <<"9","2","2","3","3","7","2","0","3","6","8","5","4","7","7","5","8","0","8">>
MaxUint64Digits == <<"1","8","4","4","6","7","4","4","0","7","3","7","0","9","5","5","1","6","1","5">>

(* ------------------------------------------------------------------ *)
(* Values held by struct fields                                        *)
(* ------------------------------------------------------------------ *)

StrV(s)   == [k |-> "string", s |-> s,     n |-> 0, b |-> FALSE]
IntV(n)   == [k |-> "int",    s |-> <<>>,  n |-> n, b |-> FALSE]
UintV(n)  == [k |-> "uint",   s |-> <<>>,  n |-> n, b |-> FALSE]
BoolV(b)  == [k |-> "bool",   s |-> <<>>,  n |-> 0, b |-> b]
\* a decimal: sign b, and in s the integer digits (no leading zeros), ".",
\* and the fraction digits (no trailing zeros)
FloatV(neg, ip, frac) ==
    [k |-> "float", s |-> ip \o <<".">> \o frac, n |-> 0, b |-> neg]

\* reflect.Kind of a type, by the type's name
Kind(t) ==
    CASE t \in {"string", "MyString"} -> "string"
      [] t \in {"int", "int8", "int16", "int32", "int64", "Port"} -> "int"
      [] t \in {"uint", "uint8", "uint16", "uint32", "uint64"} -> "uint"
      [] t \in {"float32", "float64"} -> "float"
      [] t = "bool" -> "bool"

\* the bit size of an integer type (int, uint and Port have the platform's 64)
Width(t) ==
    CASE t \in {"int8", "uint8"} -> 8
      [] t \in {"int16", "uint16"} -> 16
      [] t \in {"int32", "uint32"} -> 32
      [] OTHER -> 64

\* the zero value of a type
Zero(t) ==
    CASE Kind(t) = "string" -> StrV(<<>>)
      [] Kind(t) = "int" -> IntV(0)
      [] Kind(t) = "uint" -> UintV(0)
      [] Kind(t) = "float" -> FloatV(FALSE, <<"0">>, <<>>)
      [] Kind(t) = "bool" -> BoolV(FALSE)

(* ------------------------------------------------------------------ *)
(* strconv                                                             *)
(* ------------------------------------------------------------------ *)

Ok(v)  == [err |-> "none", val |-> v]
Err(e) == [err |-> e, val |-> IntV(0)]

\* strconv.ParseUint(s, 10, 64): digits only, at most 2^64-1
ParseUint(s) ==
    IF s = <<>> \/ ~AllDigits(s) THEN Err("syntax")
    ELSE IF DigitsGreater(StripZeros(s), MaxUint64Digits) THEN Err("range")
    ELSE Ok(UintV(NumVal(StripZeros(s))))

\* strconv.Atoi(s): an optional sign, then digits; the result fits in int
Atoi(s) ==
    LET signed == s # <<>> /\ s[1] \in {"+", "-"}
        neg    == s # <<>> /\ s[1] = "-"
        ds     == IF signed THEN Tail(s) ELSE s
    IN  IF ds = <<>> \/ ~AllDigits(ds) THEN Err("syntax")
        ELSE IF DigitsGreater(StripZeros(ds),
                              IF neg THEN MinInt64Digits ELSE MaxInt64Digits)
             THEN Err("range")
        ELSE Ok(IntV(IF neg THEN 0 - NumVal(StripZeros(ds))
                            ELSE NumVal(StripZeros(ds))))

\* strconv.ParseBool
ParseBool(s) ==
    IF s \in {<<"1">>, <<"t">>, <<"T">>, <<"T","R","U","E">>,
              <<"t","r","u","e">>, <<"T","r","u","e">>} THEN Ok(BoolV(TRUE))
    ELSE IF s \in {<<"0">>, <<"f">>, <<"F">>, <<"F","A","L","S","E">>,
                   <<"f","a","l","s","e">>, <<"F","a","l","s","e">>} THEN Ok(BoolV(FALSE))
    ELSE Err("syntax")

RECURSIVE StripTrailingZeros(_)
StripTrailingZeros(ds) ==
    IF ds # <<>> /\ ds[Len(ds)] = "0"
    THEN StripTrailingZeros(SubSeq(ds, 1, Len(ds) - 1)) ELSE ds

\* the position of the first "." of s, or 0
DotAt(s) ==
    IF \E i \in 1..Len(s) : s[i] = "."
    THEN CHOOSE i \in 1..Len(s) : s[i] = "." /\ \A j \in 1..(i-1) : s[j] # "."
    ELSE 0

\* strconv.ParseFloat(s, 64) on plain decimals: [sign] digits [. digits],
\* with at least one digit
ParseFloat(s) ==
    LET signed == s # <<>> /\ s[1] \in {"+", "-"}
        neg    == s # <<>> /\ s[1] = "-"
        body   == IF signed THEN Tail(s) ELSE s
        dot    == DotAt(body)
        ip     == IF dot = 0 THEN body ELSE SubSeq(body, 1, dot - 1)
        fp     == IF dot = 0 THEN <<>> ELSE SubSeq(body, dot + 1, Len(body))
        frac   == StripTrailingZeros(fp)
        int    == IF ip = <<>> THEN <<"0">> ELSE StripZeros(ip)
    IN  IF ~AllDigits(ip) \/ ~AllDigits(fp) \/ (ip = <<>> /\ fp = <<>>)
        THEN Err("syntax")
        ELSE Ok(FloatV(neg /\ ~(int = <<"0">> /\ frac = <<>>), int, frac))

(* ------------------------------------------------------------------ *)
(* reflect setters and setField                                        *)
(* ------------------------------------------------------------------ *)

Pow2(w) == 2 ^ w

\* reflect.Value.SetInt: the int64 is converted to the field's own width.
\* The model's numbers stay below 2^31, so widths of 32 and 64 bits hold them.
SetInt(t, n) ==
    IF Width(t) >= 32 THEN IntV(n)
    ELSE IntV(((n + Pow2(Width(t) - 1)) % Pow2(Width(t))) - Pow2(Width(t) - 1))

\* reflect.Value.SetUint: the uint64 is converted to the field's own width
SetUint(t, n) ==
    IF Width(t) >= 32 THEN UintV(n) ELSE UintV(n % Pow2(Width(t)))

\* the cases of setField's switch on field.Type().Name()
SignedNames   == {"int", "int16", "int32", "int64"}
FloatNames    == {"float", "float64"}
UnsignedNames == {"uint", "uint16", "uint32", "uint64"}

\* setField: the outcome of coercing rawValue into a field of type t.
\* st is "ok" (val is stored), "fatal" (log.Fatalln) or "panic"
\* (reflect's SetString on a field that is no string).
setField(t, rawValue) ==
    CASE t \in SignedNames ->
           LET r == Atoi(rawValue)
           IN  IF r.err # "none" THEN [st |-> "fatal", val |-> Zero(t)]
               ELSE [st |-> "ok", val |-> SetInt(t, r.val.n)]
      [] t \in FloatNames ->
           LET r == ParseFloat(rawValue)
           IN  IF r.err # "none" THEN [st |-> "fatal", val |-> Zero(t)]
               ELSE [st |-> "ok", val |-> r.val]
      [] t = "bool" ->
           LET r == ParseBool(rawValue)
           IN  IF r.err # "none" THEN [st |-> "fatal", val |-> Zero(t)]
               ELSE [st |-> "ok", val |-> r.val]
      [] t \in UnsignedNames ->
           LET r == ParseUint(rawValue)
           IN  IF r.err # "none" THEN [st |-> "fatal", val |-> Zero(t)]
               ELSE [st |-> "ok", val |-> SetUint(t, r.val.n)]
      [] OTHER ->
           IF Kind(t) = "string" THEN [st |-> "ok", val |-> StrV(rawValue)]
           ELSE [st |-> "panic", val |-> Zero(t)]

(* ------------------------------------------------------------------ *)
(* Text used by the inputs                                             *)
(* ------------------------------------------------------------------ *)

sListenURL == <<"L","i","s","t","e","n","U","R","L">>
sDatabase == <<"D","a","t","a","b","a","s","e">>
sV == <<"V">>
sName == <<"N","a","m","e">>
sPort == <<"P","o","r","t">>
sHost == <<"H","o","s","t">>
sId == <<"I","d">>
sUrl == <<"u","r","l">>
sDb == <<"D","b">>
sA == <<"A">>
sB == <<"B">>
sInner == <<"I","n","n","e","r">>
sSecret == <<"s","e","c","r","e","t">>
sLocal8080 == <<"l","o","c","a","l","h","o","s","t",":","8","0","8","0">>
sLocal9000 == <<"l","o","c","a","l","h","o","s","t",":","9","0","0","0">>
sBlabla == <<"b","l","a","b","l","a">>
sMysql == <<"m","y","s","q","l">>
sPg == <<"p","g">>
sRedis == <<"r","e","d","i","s">>
sAbc == <<"a","b","c">>
s12p3 == <<"1","2",".","3">>
sMaybe == <<"m","a","y","b","e">>
s7 == <<"7">>
sMinus1 == <<"-","1">>
s70000 == <<"7","0","0","0","0">>
sT == <<"t">>
s200 == <<"2","0","0">>
sHuge == <<"9","9","9","9","9","9","9","9","9","9","9","9","9","9","9","9","9","9","9","9","9">>
s80 == <<"8","0">>
s8080 == <<"8","0","8","0">>
eLISTENURL == <<"C","O","N","F","I","G","_","L","I","S","T","E","N","U","R","L">>
eV == <<"C","O","N","F","I","G","_","V">>
eDBNAME == <<"C","O","N","F","I","G","_","D","B","N","A","M","E">>
eURL == <<"C","O","N","F","I","G","_","U","R","L">>
eBNAME == <<"C","O","N","F","I","G","_","B","N","A","M","E">>
eABNAME == <<"C","O","N","F","I","G","_","A","B","N","A","M","E">>
ePORT == <<"C","O","N","F","I","G","_","P","O","R","T">>
eSECRET == <<"C","O","N","F","I","G","_","S","E","C","R","E","T">>
eNAME == <<"C","O","N","F","I","G","_","N","A","M","E">>

Flag(name) == <<"-">> \o name

(* ------------------------------------------------------------------ *)
(* Struct types and the field walk                                     *)
(* ------------------------------------------------------------------ *)

\* a struct field that is no struct: its name, its configName tag, its type
Leaf(name, tag, type, exported) ==
    [struct |-> FALSE, Name |-> name, configName |-> tag, configPrefix |-> <<>>,
     Type |-> type, exported |-> exported, fields |-> <<>>]

\* a struct field whose type is a struct: its configPrefix tag and its fields
Group(name, prefix, exported, fields) ==
    [struct |-> TRUE, Name |-> name, configName |-> <<>>, configPrefix |-> prefix,
     Type |-> "struct", exported |-> exported, fields |-> fields]

\* getFieldName: the configName tag when it is not empty, else the field's name
getFieldName(field) ==
    IF Len(field.configName) > 0 THEN field.configName ELSE field.Name

\* the prefix foreachFieldValue hands to the walk of a nested struct
NestedPrefix(prefix, field) == field.configPrefix

RECURSIVE foreachFieldValue(_, _, _, _, _)
\* foreachFieldValue from field i on: the currentField records handed to
\* runAction, in order. ro: the value was reached through an unexported
\* field, so that CanSet is false.
foreachFieldValue(fields, prefix, ro, path, i) ==
    IF i > Len(fields) THEN <<>>
    ELSE LET f == fields[i]
             here ==
               IF f.struct
               THEN foreachFieldValue(f.fields, NestedPrefix(prefix, f),
                                      ro \/ ~f.exported, Append(path, i), 1)
               ELSE IF ~ro /\ f.exported
               THEN << [name |-> prefix \o getFieldName(f), type |-> f.Type,
                        path |-> Append(path, i), index |-> i] >>
               ELSE <<>>
         IN  here \o foreachFieldValue(fields, prefix, ro, path, i + 1)

\* foreachField(target, runAction)
foreachField(fields) == foreachFieldValue(fields, <<>>, FALSE, <<>>, 1)

RECURSIVE Leaves(_, _, _, _)
\* every field of the struct that is no struct, settable or not
Leaves(fields, ro, path, i) ==
    IF i > Len(fields) THEN <<>>
    ELSE LET f == fields[i]
             here ==
               IF f.struct
               THEN Leaves(f.fields, ro \/ ~f.exported, Append(path, i), 1)
               ELSE << [path |-> Append(path, i), type |-> f.Type,
                        exported |-> ~ro /\ f.exported] >>
         IN  here \o Leaves(fields, ro, path, i + 1)

Range(seq) == {seq[i] : i \in 1..Len(seq)}

LeafPaths(fields) == {d.path : d \in Range(Leaves(fields, FALSE, <<>>, 1))}

TypeAt(fields, p) ==
    (CHOOSE d \in Range(Leaves(fields, FALSE, <<>>, 1)) : d.path = p).type

ExportedAt(fields, p) ==
    (CHOOSE d \in Range(Leaves(fields, FALSE, <<>>, 1)) : d.path = p).exported

(* ------------------------------------------------------------------ *)
(* package flag: the process-wide CommandLine flag set                 *)
(* ------------------------------------------------------------------ *)

\* the position of the first "=" of name after its first character, or 0
EqualsAt(name) ==
    IF \E i \in 2..Len(name) : name[i] = "="
    THEN CHOOSE i \in 2..Len(name) :
             name[i] = "=" /\ \A j \in 2..(i-1) : name[j] # "="
    ELSE 0

RECURSIVE FlagParse(_, _)
\* flag.Parse over the arguments that are left: the flags' values after it,
\* or the error that ends the process (ExitOnError).
\* formal: the defined flags and their current values.
FlagParse(arguments, formal) ==
    IF arguments = <<>> THEN [st |-> "ok", formal |-> formal]
    ELSE
    LET s == arguments[1] IN
    IF Len(s) < 2 \/ s[1] # "-" THEN [st |-> "ok", formal |-> formal]
    ELSE
    LET numMinuses == IF s[2] = "-" THEN 2 ELSE 1 IN
    IF numMinuses = 2 /\ Len(s) = 2 THEN [st |-> "ok", formal |-> formal]
    ELSE
    LET name0 == SubSeq(s, numMinuses + 1, Len(s)) IN
    IF Len(name0) = 0 \/ name0[1] = "-" \/ name0[1] = "="
    THEN [st |-> "error", formal |-> formal]
    ELSE
    LET eq       == EqualsAt(name0)
        name     == IF eq # 0 THEN SubSeq(name0, 1, eq - 1) ELSE name0
        rest     == Tail(arguments)
        hasValue == eq # 0 \/ rest # <<>>
        value    == IF eq # 0 THEN SubSeq(name0, eq + 1, Len(name0))
                    ELSE IF rest # <<>> THEN rest[1] ELSE <<>>
        after    == IF eq = 0 /\ rest # <<>> THEN Tail(rest) ELSE rest
    IN  IF name \notin DOMAIN formal
        THEN [st |-> IF name \in {<<"h","e","l","p">>, <<"h">>}
                     THEN "help" ELSE "error", formal |-> formal]
        ELSE IF ~hasValue THEN [st |-> "error", formal |-> formal]
        ELSE FlagParse(after, [formal EXCEPT ![name] = value])

(* ------------------------------------------------------------------ *)
(* encoding/json: decoding one JSON value into a field                 *)
(* ------------------------------------------------------------------ *)

\* a JSON number, by its literal
JNum(s) == [k |-> "number", s |-> s, n |-> 0, b |-> FALSE]

\* whether n fits an integer type of t's width (reflect's OverflowInt/Uint)
FitsInt(t, n) ==
    Width(t) >= 32 \/ (n >= 0 - Pow2(Width(t) - 1) /\ n < Pow2(Width(t) - 1))
FitsUint(t, n) == Width(t) >= 32 \/ n < Pow2(Width(t))

\* json's decoding of value jv into a field of type t; a value of the wrong
\* JSON type, or a number the field cannot hold, is an UnmarshalTypeError
DecodeInto(t, jv) ==
    CASE Kind(t) = "string" ->
           IF jv.k = "string" THEN Ok(jv) ELSE Err("type")
      [] Kind(t) = "int" ->
           IF jv.k # "number" \/ Atoi(jv.s).err # "none" THEN Err("type")
           ELSE IF ~FitsInt(t, Atoi(jv.s).val.n) THEN Err("type")
           ELSE Ok(Atoi(jv.s).val)
      [] Kind(t) = "uint" ->
           IF jv.k # "number" \/ ParseUint(jv.s).err # "none" THEN Err("type")
           ELSE IF ~FitsUint(t, ParseUint(jv.s).val.n) THEN Err("type")
           ELSE Ok(ParseUint(jv.s).val)
      [] Kind(t) = "float" ->
           IF jv.k # "number" \/ ParseFloat(jv.s).err # "none" THEN Err("type")
           ELSE Ok(ParseFloat(jv.s).val)
      [] Kind(t) = "bool" ->
           IF jv.k = "bool" THEN Ok(jv) ELSE Err("type")

(* ------------------------------------------------------------------ *)
(* Bounds                                                              *)
(* ------------------------------------------------------------------ *)

\* hooks added in one run of the process, over all its loaders
MaxHooks == 3
\* calls of Retrieve on one loader
MaxCalls == 2

(* ------------------------------------------------------------------ *)
(* State                                                               *)
(* ------------------------------------------------------------------ *)

Loaders == {1, 2}

VARIABLES
    loaders,     \* the loaders NewConfigLoaderFor has made
    typ,         \* typ[l]: the fields of loader l's target struct type
    pre,         \* pre[l]: the target as handed to NewConfigLoaderFor
    target,      \* target[l]: the target struct, a value for each leaf path
    hooks,       \* hooks[q]: the content of queue object q
    loaded,      \* loaded[l]: the queue object of Retrieve's receiver
    pc,          \* pc[l]: "created", "retrieving" or "returned"
    calls,       \* calls[l]: the calls of Retrieve so far
    registered,  \* registered[l]: every hook handed to AddHook, in order
    added,       \* added[l]: a hook was added after a call of Retrieve
    snap,        \* snap[l]: the target when Retrieve first returned
    proc,        \* the process: "running", "exited" or "panicked"
    CommandLine, \* flag.CommandLine: the defined flags and their values
    args,        \* os.Args[1:]
    environ,     \* the process environment
    files,       \* the files: name -> content
    failure,     \* the first failure of a hook, and the state it left
    last         \* the hook that ran last, and the target before it ran

vars == <<loaders, typ, pre, target, hooks, loaded, pc, calls, registered,
          added, snap, proc, CommandLine, args, environ, files, failure, last>>

(* ------------------------------------------------------------------ *)
(* The hooks                                                           *)
(* ------------------------------------------------------------------ *)

FileHook(file) == [kind |-> "file", file |-> file]
ParamsHook     == [kind |-> "params", file |-> ""]
EnvHook        == [kind |-> "env", file |-> ""]

\* log.Fatalln replaced by a call that logs and returns
FatallnReturns == "running"

\* log.Fatalln ends the process
Fatalln == "exited"

\* os.Getenv
Getenv(env, name) == IF name \in DOMAIN env THEN env[name] ELSE <<>>

\* formatEnvVar without the upper-casing
formatEnvVarAsIs(name) == <<"C","O","N","F","I","G","_">> \o name

\* EnvHook.formatEnvVar
formatEnvVar(name) == <<"C","O","N","F","I","G","_">> \o ToUpper(name)

\* the state a hook works on: the target, the process, the flag set, and
\* the failure it met
Fail(st, kind, how) ==
    [st EXCEPT !.proc = how,
               !.fail = IF st.fail = "none" THEN kind ELSE st.fail]

\* setField(field.value, raw) on the field of descriptor d
Assign(st, d, raw) ==
    LET r == setField(d.type, raw)
    IN  CASE r.st = "ok"    -> [st EXCEPT !.tgt[d.path] = r.val]
          [] r.st = "fatal" -> Fail(st, "coerce", Fatalln)
          [] r.st = "panic" -> Fail(st, "setstring", "panicked")

\* the len(...) > 0 test of EnvHook.run and ParamsHook.run
NonEmpty(raw) == Len(raw) > 0

RECURSIVE EnvLoop(_, _, _, _)
\* EnvHook.run's callback on descriptors i, i+1, ...
EnvLoop(ds, i, env, st) ==
    IF i > Len(ds) \/ st.proc # "running" THEN st
    ELSE LET raw == Getenv(env, formatEnvVar(ds[i].name))
         IN  EnvLoop(ds, i + 1, env,
                     IF NonEmpty(raw) THEN Assign(st, ds[i], raw) ELSE st)

\* EnvHook.run
RunEnv(fields, env, st) == EnvLoop(foreachField(fields), 1, env, st)

RECURSIVE DefineFlags(_, _, _)
\* ParamsHook.readFlagsFromStructMetadata: flag.String per descriptor;
\* defining a name twice panics ("flag redefined")
DefineFlags(ds, i, st) ==
    IF i > Len(ds) \/ st.proc # "running" THEN st
    ELSE IF ds[i].name \in DOMAIN st.formal
         THEN Fail(st, "redefined", "panicked")
         ELSE DefineFlags(ds, i + 1,
                  [st EXCEPT !.formal = (ds[i].name :> <<>>) @@ st.formal])

\* the field's index in its own struct used as the index into hook.flags
FlagIndexByField(d, i) == d.index

\* the index into hook.flags that ParamsHook.run uses for the i-th descriptor
FlagIndex(d, i) == i

RECURSIVE ParamsLoop(_, _, _)
\* ParamsHook.run's callback on descriptors i, i+1, ...; hook.flags[j] points
\* to the value of the flag defined for descriptor j
ParamsLoop(ds, i, st) ==
    IF i > Len(ds) \/ st.proc # "running" THEN st
    ELSE LET j == FlagIndex(ds[i], i)
         IN  ParamsLoop(ds, i + 1,
                 IF j <= Len(ds) /\ NonEmpty(st.formal[ds[j].name])
                 THEN Assign(st, ds[i], st.formal[ds[j].name]) ELSE st)

\* ParamsHook.run
RunParams(fields, arguments, st) ==
    LET ds      == foreachField(fields)
        defined == DefineFlags(ds, 1, st)
        parsed  == FlagParse(arguments, defined.formal)
    IN  IF defined.proc # "running" THEN defined
        ELSE IF parsed.st # "ok"
             THEN Fail(defined, IF parsed.st = "help" THEN "help" ELSE "parse",
                       "exited")
        ELSE ParamsLoop(ds, 1, [defined EXCEPT !.formal = parsed.formal])

\* ConfigFileHook.run: open the file and decode it onto the target. A value
\* that does not fit its field is skipped and reported when decoding ends.
RunFile(fields, fs, file, st) ==
    IF file \notin DOMAIN fs THEN Fail(st, "open", Fatalln)
    ELSE IF ~fs[file].valid THEN Fail(st, "decode", Fatalln)
    ELSE LET doc  == fs[file].doc
             hit  == {p \in DOMAIN doc \cap DOMAIN st.tgt : ExportedAt(fields, p)}
             good == {p \in hit : DecodeInto(TypeAt(fields, p), doc[p]).err = "none"}
             tgt  == [p \in DOMAIN st.tgt |->
                        IF p \in good
                        THEN DecodeInto(TypeAt(fields, p), doc[p]).val
                        ELSE st.tgt[p]]
         IN  IF good = hit THEN [st EXCEPT !.tgt = tgt]
             ELSE Fail([st EXCEPT !.tgt = tgt], "decode", Fatalln)

\* hook.run(target)
Run(h, fields, fs, env, arguments, st) ==
    CASE h.kind = "file"   -> RunFile(fields, fs, h.file, st)
      [] h.kind = "params" -> RunParams(fields, arguments, st)
      [] h.kind = "env"    -> RunEnv(fields, env, st)

(* ------------------------------------------------------------------ *)
(* The queue and the loader                                            *)
(* ------------------------------------------------------------------ *)

\* queue.Enqueue
Enqueue(q, h) == Append(q, h)

\* a stack's pop: the newest item
DequeueNewest(q) == [item |-> q[Len(q)], rest |-> SubSeq(q, 1, Len(q) - 1)]

\* queue.Dequeue: the oldest item
Dequeue(q) == [item |-> Head(q), rest |-> Tail(q)]

\* the receiver's copy holding a queue object of its own
ReceiverQueueCopy(l) == l + 2

\* Retrieve has a value receiver: `loaded` is a copy of the ConfigLoader,
\* and its hooks field points to the loader's own queue object
ReceiverQueue(l) == l

\* AddHook
AddHook(l, h) ==
    /\ proc = "running"
    /\ pc[l] # "retrieving"
    /\ Len(registered[1]) + Len(registered[2]) < MaxHooks
    /\ hooks' = [hooks EXCEPT ![l] = Enqueue(@, h)]
    /\ registered' = [registered EXCEPT ![l] = Append(@, h)]
    /\ added' = [added EXCEPT ![l] = @ \/ calls[l] > 0]
    /\ UNCHANGED <<loaders, typ, pre, target, loaded, pc, calls, snap, proc,
                   CommandLine, args, environ, files, failure, last>>

\* Retrieve is called
RetrieveCall(l) ==
    /\ proc = "running"
    /\ pc[l] # "retrieving"
    /\ calls[l] < MaxCalls
    /\ pc' = [pc EXCEPT ![l] = "retrieving"]
    /\ calls' = [calls EXCEPT ![l] = @ + 1]
    /\ loaded' = [loaded EXCEPT ![l] = ReceiverQueue(l)]
    /\ hooks' = [hooks EXCEPT ![ReceiverQueue(l)] = hooks[l]]
    /\ UNCHANGED <<loaders, typ, pre, target, registered, added, snap, proc,
                   CommandLine, args, environ, files, failure, last>>

\* one turn of Retrieve's loop: dequeue a hook and run it
RunHook(l, kind) ==
    /\ proc = "running"
    /\ pc[l] = "retrieving"
    /\ Len(hooks[loaded[l]]) > 0
    /\ LET d  == Dequeue(hooks[loaded[l]])
           st == Run(d.item, typ[l], files, environ, args,
                     [tgt |-> target[l], proc |-> proc, fail |-> "none",
                      formal |-> CommandLine])
       IN  /\ d.item.kind = kind
           /\ hooks' = [hooks EXCEPT ![loaded[l]] = d.rest]
           /\ target' = [target EXCEPT ![l] = st.tgt]
           /\ proc' = st.proc
           /\ CommandLine' = st.formal
           /\ last' = [l |-> l, kind |-> kind, before |-> target[l]]
           /\ failure' =
                IF failure.kind = "none" /\ st.fail # "none"
                THEN [kind |-> st.fail, l |-> l, target |-> target',
                      hooks |-> hooks']
                ELSE failure
    /\ UNCHANGED <<loaders, typ, pre, loaded, pc, calls, registered, added,
                   snap, args, environ, files>>

RunFileHook(l)   == RunHook(l, "file")
RunParamsHook(l) == RunHook(l, "params")
RunEnvHook(l)    == RunHook(l, "env")

\* Retrieve's loop ends and the target is returned
RetrieveReturn(l) ==
    /\ proc = "running"
    /\ pc[l] = "retrieving"
    /\ Len(hooks[loaded[l]]) = 0
    /\ pc' = [pc EXCEPT ![l] = "returned"]
    /\ snap' = [snap EXCEPT ![l] = IF calls[l] = 1 THEN target[l] ELSE @]
    /\ UNCHANGED <<loaders, typ, pre, target, hooks, loaded, calls, registered,
                   added, proc, CommandLine, args, environ, files, failure, last>>

(* ------------------------------------------------------------------ *)
(* Inputs                                                              *)
(* ------------------------------------------------------------------ *)

\* the value a field holds before the load
Default(t) ==
    CASE Kind(t) = "string" -> StrV(<<"d">>)
      [] Kind(t) = "int"    -> IntV(5)
      [] Kind(t) = "uint"   -> UintV(5)
      [] Kind(t) = "float"  -> FloatV(FALSE, <<"1">>, <<"5">>)
      [] Kind(t) = "bool"   -> BoolV(TRUE)

Defaults(fields) == [p \in LeafPaths(fields) |-> Default(TypeAt(fields, p))]

\* struct { ListenURL string; Database string }
SimpleCfg == << Leaf(sListenURL, <<>>, "string", TRUE),
                Leaf(sDatabase, <<>>, "string", TRUE) >>

\* struct { V T }
ProbeCfg(t) == << Leaf(sV, <<>>, t, TRUE) >>

\* struct { ListenURL string `configName:"url"`
\*          Db struct { Name string; Port uint16 } `configPrefix:"db"` }
DbCfg == << Leaf(sListenURL, sUrl, "string", TRUE),
            Group(sDb, <<"d","b">>, TRUE,
                  << Leaf(sName, <<>>, "string", TRUE),
                     Leaf(sPort, <<>>, "uint16", TRUE) >>) >>

\* struct { A struct { Id int16
\*                     B struct { Name string } `configPrefix:"b"` }
\*            `configPrefix:"a"` }
DeepCfg == << Group(sA, <<"a">>, TRUE,
                    << Leaf(sId, <<>>, "int16", TRUE),
                       Group(sB, <<"b">>, TRUE,
                             << Leaf(sName, <<>>, "string", TRUE) >>) >>) >>

\* struct { Port int16; secret string; Inner struct { Host string } }
MixedCfg == << Leaf(sPort, <<>>, "int16", TRUE),
               Leaf(sSecret, <<>>, "string", FALSE),
               Group(sInner, <<>>, TRUE,
                     << Leaf(sHost, <<>>, "string", TRUE) >>) >>

\* struct { Name string; Db struct { Name string } }
ClashCfg == << Leaf(sName, <<>>, "string", TRUE),
               Group(sDb, <<>>, TRUE,
                     << Leaf(sName, <<>>, "string", TRUE) >>) >>

ProbeTypes == {"string", "MyString", "int", "int16", "int64", "uint", "uint16",
               "float64", "bool", "int8", "float32", "Port"}

ProbeRaws == {sAbc, s12p3, sMaybe, s7, sMinus1, s70000, sT,
              <<"t","r","u","e">>, sHuge}

\* the content of a file: a JSON document, by the value it holds for each
\* field, or text that is no JSON
Document(doc) == [valid |-> TRUE, doc |-> doc]
NoDoc  == [p \in {} |-> JNum(s7)]
Broken == [valid |-> FALSE, doc |-> NoDoc]
NoEnv  == [n \in {} |-> <<>>]
NoFile == [f \in {} |-> Broken]

Scenario(fields, arguments, env, fs) ==
    [typ |-> fields, args |-> arguments, environ |-> env, files |-> fs]

SimpleScenarios ==
    { Scenario(SimpleCfg, a, e, f) :
        a \in { <<>>, <<Flag(sDatabase), sMysql>>, <<Flag(sDatabase) \o <<"=">> >>,
                <<Flag(<<"x">>), s7>>, <<Flag(sDatabase)>> },
        e \in { NoEnv, (eLISTENURL :> sLocal9000) },
        f \in { ("config.json" :> Document((<<1>> :> StrV(sLocal8080))
                                             @@ (<<2>> :> StrV(sBlabla)))),
                ("config.json" :> Document((<<1>> :> StrV(sLocal8080))
                                             @@ (<<2>> :> JNum(s7)))),
                ("config.json" :> Broken),
                NoFile } }

DbScenarios ==
    { Scenario(DbCfg, a, e,
               ("config.json" :> Document((<<1>> :> StrV(sLocal8080))
                   @@ (<<2, 1>> :> StrV(sRedis)) @@ (<<2, 2>> :> JNum(s80))))) :
        a \in { <<>>, << <<"-">> \o Flag(<<"d","b">> \o sName) \o <<"=">> \o sPg,
                         Flag(<<"d","b">> \o sPort), s70000 >> },
        e \in { NoEnv, (eDBNAME :> sMysql) @@ (eURL :> sLocal9000) } }

DeepScenarios ==
    { Scenario(DeepCfg, a, e, ("config.json" :> Document((<<1, 1>> :> JNum(s7))))) :
        a \in { <<>>, << Flag(<<"b">> \o sName), sPg,
                         Flag(<<"a">> \o sId), s80 >> },
        e \in { NoEnv, (eBNAME :> sMysql) @@ (eABNAME :> sRedis) } }

MixedScenarios ==
    { Scenario(MixedCfg, a, e,
               ("config.json" :> Document((<<1>> :> JNum(s80))
                                            @@ (<<2>> :> StrV(sAbc))))) :
        a \in { <<>>, << Flag(sPort), s8080, Flag(sHost), sAbc >> },
        e \in { NoEnv, (ePORT :> s70000) @@ (eSECRET :> sAbc) } }

ClashScenarios ==
    { Scenario(ClashCfg, <<>>, e, NoFile) : e \in { NoEnv, (eNAME :> sPg) } }

ProbeScenarios ==
    { Scenario(ProbeCfg(t), <<Flag(sV), r>>, (eV :> r),
               ("config.json" :> Document((<<1>> :> JNum(s200))))) :
        t \in ProbeTypes, r \in ProbeRaws }

Scenarios ==
    SimpleScenarios \cup DbScenarios \cup DeepScenarios \cup MixedScenarios
        \cup ClashScenarios \cup ProbeScenarios

\* two loaders in one process
PairScenarios ==
    { Scenario(<<t1, t2>>, a, e, NoFile) :
        t1 \in {SimpleCfg, DbCfg}, t2 \in {SimpleCfg, DbCfg},
        a \in { <<>>, <<Flag(sDatabase), sMysql>> },
        e \in { NoEnv, (eLISTENURL :> sLocal9000) } }

Hooks == {FileHook("config.json"), ParamsHook, EnvHook}

\* the state after NewConfigLoaderFor(&target) for each loader of ls, the
\* struct types being those of ts
Start(ls, ts, sc) ==
    /\ loaders = ls
    /\ typ = ts
    /\ pre = [l \in Loaders |-> Defaults(ts[l])]
    /\ target = pre
    /\ hooks = [q \in {1, 2, 3, 4} |-> <<>>]
    /\ loaded = [l \in Loaders |-> l]
    /\ pc = [l \in Loaders |-> "created"]
    /\ calls = [l \in Loaders |-> 0]
    /\ registered = [l \in Loaders |-> <<>>]
    /\ added = [l \in Loaders |-> FALSE]
    /\ snap = pre
    /\ proc = "running"
    /\ CommandLine = NoEnv
    /\ args = sc.args
    /\ environ = sc.environ
    /\ files = sc.files
    /\ failure = [kind |-> "none", l |-> 0, target |-> target, hooks |-> hooks]
    /\ last = [l |-> 0, kind |-> "none", before |-> <<>>]

\* a process with one loader
Init == \E sc \in Scenarios : Start({1}, <<sc.typ, <<>> >>, sc)

\* a process with two loaders
InitTwo == \E sc \in PairScenarios : Start({1, 2}, sc.typ, sc)

Next ==
    \/ \E l \in loaders, h \in Hooks : AddHook(l, h)
    \/ \E l \in loaders : RetrieveCall(l)
    \/ \E l \in loaders : RunFileHook(l)
    \/ \E l \in loaders : RunParamsHook(l)
    \/ \E l \in loaders : RunEnvHook(l)
    \/ \E l \in loaders : RetrieveReturn(l)

Spec == Init /\ [][Next]_vars

SpecTwo == InitTwo /\ [][Next]_vars

(* ------------------------------------------------------------------ *)
(* Properties                                                          *)
(* ------------------------------------------------------------------ *)

\* every hook handed to AddHook of loader l has run and Retrieve has returned
Loaded(l) == pc[l] = "returned" /\ hooks[l] = <<>>

\* the descriptor of leaf p, when the walk yields one
Described(fields, p) == \E d \in Range(foreachField(fields)) : d.path = p
DescAt(fields, p) == CHOOSE d \in Range(foreachField(fields)) : d.path = p

\* the values the command line gives to the flags named in names
GivenFlags(names) == FlagParse(args, [n \in names |-> <<>>]).formal

\* the environment variable of a resolved name
EnvOf(name) == Getenv(environ, <<"C","O","N","F","I","G","_">> \o ToUpper(name))

\* whether source h supplies a value for leaf p of loader l, and which
Supplies(h, l, p) ==
    LET fields == typ[l]
        t      == TypeAt(fields, p)
        names  == {d.name : d \in Range(foreachField(fields))}
    IN  CASE h.kind = "file" ->
               IF /\ h.file \in DOMAIN files
                  /\ files[h.file].valid
                  /\ p \in DOMAIN files[h.file].doc
                  /\ ExportedAt(fields, p)
               THEN [has |-> TRUE, val |-> DecodeInto(t, files[h.file].doc[p]).val]
               ELSE [has |-> FALSE, val |-> Zero(t)]
          [] h.kind = "env" ->
               IF Described(fields, p) /\ Len(EnvOf(DescAt(fields, p).name)) > 0
               THEN [has |-> TRUE,
                     val |-> setField(t, EnvOf(DescAt(fields, p).name)).val]
               ELSE [has |-> FALSE, val |-> Zero(t)]
          [] h.kind = "params" ->
               IF Described(fields, p)
                  /\ Len(GivenFlags(names)[DescAt(fields, p).name]) > 0
               THEN [has |-> TRUE,
                     val |-> setField(t, GivenFlags(names)[DescAt(fields, p).name]).val]
               ELSE [has |-> FALSE, val |-> Zero(t)]

Max(S) == CHOOSE i \in S : \A j \in S : j <= i

\* C1: when Retrieve has returned after running every registered source, each
\* leaf field holds the value supplied by the last-registered source that
\* supplies one for it, and its pre-load value when no source supplies one.
C1_LastSourceWins ==
    \A l \in loaders :
        Loaded(l) =>
            \A p \in DOMAIN target[l] :
                LET S == {i \in 1..Len(registered[l]) :
                             Supplies(registered[l][i], l, p).has}
                IN  target[l][p] =
                       IF S = {} THEN pre[l][p]
                       ELSE Supplies(registered[l][Max(S)], l, p).val

\* File, Params, Env registered in that order give
\* {ListenURL: localhost:9000, Database: mysql}
C1_Witness ==
    /\ typ[1] = SimpleCfg
    /\ Loaded(1)
    /\ registered[1] = <<FileHook("config.json"), ParamsHook, EnvHook>>
    /\ target[1] = (<<1>> :> StrV(sLocal9000)) @@ (<<2>> :> StrV(sMysql))

\* C2: with the Parameters source alone, after Retrieve a flag is defined
\* under each descriptor's resolved name, each field whose flag was given a
\* (non-empty) value holds the coercion of that value, and every other field
\* holds its pre-load value.
C2_ParamsOnly ==
    \A l \in loaders :
        (Loaded(l) /\ registered[l] = <<ParamsHook>>) =>
            LET ds    == foreachField(typ[l])
                given == GivenFlags({d.name : d \in Range(ds)})
            IN  /\ \A d \in Range(ds) :
                      /\ d.name \in DOMAIN CommandLine
                      /\ target[l][d.path] =
                            IF Len(given[d.name]) > 0
                            THEN setField(d.type, given[d.name]).val
                            ELSE pre[l][d.path]
                /\ \A p \in DOMAIN target[l] :
                      ~Described(typ[l], p) => target[l][p] = pre[l][p]

\* --dbName=pg -dbPort 70000: the nested fields are set, the url field is not
C2_Witness ==
    /\ typ[1] = DbCfg
    /\ Loaded(1)
    /\ registered[1] = <<ParamsHook>>
    /\ target[1][<<1>>] = pre[1][<<1>>]
    /\ target[1][<<2, 1>>] = StrV(sPg)
    /\ target[1][<<2, 2>>] # pre[1][<<2, 2>>]

RECURSIVE NameAlong(_, _)
\* the prefix tags of the groups on path p, outermost first, then the leaf's
\* own name
NameAlong(fields, p) ==
    IF Len(p) = 1 THEN getFieldName(fields[p[1]])
    ELSE fields[p[1]].configPrefix \o NameAlong(fields[p[1]].fields, Tail(p))

\* C4: the resolved name of a leaf is the concatenation of the prefix tags of
\* all its enclosing groups, outermost first, and its own name: that is the
\* flag the Parameters source defines and the variable the Environment source
\* reads.
C4_AccumulatedPrefix ==
    /\ (last.kind = "params" /\ failure.kind = "none") =>
          \A d \in Range(foreachField(typ[last.l])) :
              NameAlong(typ[last.l], d.path) \in DOMAIN CommandLine
    /\ (last.kind = "env" /\ failure.kind = "none") =>
          \A d \in Range(foreachField(typ[last.l])) :
              Len(EnvOf(NameAlong(typ[last.l], d.path))) > 0 =>
                  target[last.l][d.path] =
                      setField(d.type, EnvOf(NameAlong(typ[last.l], d.path))).val

\* the Environment source has just handed raw to setField for the first field
EnvSupplied(raw) ==
    /\ last.kind = "env"
    /\ foreachField(typ[last.l]) # <<>>
    /\ raw = EnvOf(foreachField(typ[last.l])[1].name)
    /\ Len(raw) > 0

FirstField == foreachField(typ[last.l])[1]

Predeclared == {"string", "int", "int8", "int16", "int32", "int64",
                "uint", "uint8", "uint16", "uint32", "uint64",
                "float32", "float64", "bool"}

\* a decimal numeral in canonical form: no "+", no leading zeros, no "-0"
CanonDigits(ds) == ds # <<>> /\ AllDigits(ds) /\ StripZeros(ds) = ds
CanonInt(raw) ==
    \/ CanonDigits(raw)
    \/ Len(raw) > 1 /\ raw[1] = "-" /\ CanonDigits(Tail(raw)) /\ raw # <<"-","0">>

\* the integer a canonical numeral of at most 9 digits denotes
IntOf(raw) == IF raw[1] = "-" THEN 0 - NumVal(Tail(raw)) ELSE NumVal(raw)
Short(raw) == Len(raw) <= 9

\* raw is the string form of a value of type t, and the value it denotes
IsStringForm(t, raw) ==
    CASE Kind(t) = "string" -> TRUE
      [] Kind(t) = "int"    -> CanonInt(raw) /\ Short(raw) /\ FitsInt(t, IntOf(raw))
      [] Kind(t) = "uint"   -> CanonDigits(raw) /\ Short(raw) /\ FitsUint(t, NumVal(raw))
      [] Kind(t) = "float"  -> ParseFloat(raw).err = "none" /\ raw[1] # "+"
      [] Kind(t) = "bool"   -> raw \in {<<"t","r","u","e">>, <<"f","a","l","s","e">>}

Denoted(t, raw) ==
    CASE Kind(t) = "string" -> StrV(raw)
      [] Kind(t) = "int"    -> IntV(IntOf(raw))
      [] Kind(t) = "uint"   -> UintV(NumVal(raw))
      [] Kind(t) = "float"  -> ParseFloat(raw).val
      [] Kind(t) = "bool"   -> BoolV(raw = <<"t","r","u","e">>)

\* C5: for a field of a string, signed, unsigned, floating point or boolean
\* type of any width, coercing the string form of a value stores that value,
\* and "abc" or "12.3" for an integer field and "maybe" for a boolean field
\* are coercion failures.
C5_RoundTrip ==
    \A raw \in ProbeRaws :
        (EnvSupplied(raw) /\ FirstField.type \in Predeclared) =>
            /\ IsStringForm(FirstField.type, raw) =>
                  /\ failure.kind = "none"
                  /\ target[last.l][FirstField.path] = Denoted(FirstField.type, raw)
            /\ ( \/ Kind(FirstField.type) = "int" /\ raw \in {sAbc, s12p3}
                 \/ Kind(FirstField.type) = "bool" /\ raw = sMaybe )
                  => failure.kind = "coerce"

\* C6: once a hook has failed the process is no longer running, Retrieve
\* of that loader has not returned, and the targets and the queues are as the
\* failing hook left them: no later source runs and no field is written.
C6_FailureAborts ==
    failure.kind # "none" =>
        /\ proc # "running"
        /\ pc[failure.l] = "retrieving"
        /\ target = failure.target
        /\ hooks = failure.hooks

\* a coercion failure with a later-registered source still in the queue
C6_Witness ==
    /\ failure.kind = "coerce"
    /\ failure.l = 1
    /\ Len(hooks[1]) > 0
    /\ proc = "exited"

\* C7: a second call of Retrieve, no hook having been added since the first,
\* does not fail and leaves the target as the first call returned it.
C7_RetrieveTwice ==
    \A l \in loaders :
        (calls[l] >= 2 /\ ~added[l]) => (proc = "running" /\ target[l] = snap[l])

\* the second call has returned, after a first call that ran three sources
C7_Witness ==
    /\ calls[1] = 2
    /\ pc[1] = "returned"
    /\ ~added[1]
    /\ registered[1] = <<FileHook("config.json"), ParamsHook, EnvHook>>
    /\ target[1] # pre[1]

\* a base-10 numeral whose value an integer field of type t cannot hold
OutOfRange(t, raw) ==
    IF Kind(t) = "int"
    THEN /\ CanonInt(raw)
         /\ \/ ~Short(raw)
            \/ ~FitsInt(t, IntOf(raw))
    ELSE /\ CanonDigits(raw)
         /\ \/ ~Short(raw)
            \/ ~FitsUint(t, NumVal(raw))

\* C8: a numeral that does not fit a signed or unsigned integer field of 16,
\* 32 or 64 bits is a coercion failure and the field is not written.
C8_OutOfRangeRejected ==
    \A raw \in ProbeRaws :
        ( /\ EnvSupplied(raw)
          /\ FirstField.type \in SignedNames \cup UnsignedNames
          /\ OutOfRange(FirstField.type, raw) ) =>
            /\ failure.kind = "coerce"
            /\ target[last.l][FirstField.path] = last.before[FirstField.path]

\* C9: a raw value supplied for a field whose type the switch of setField
\* does not name is assigned as a string and the load does not fail.
C9_UnknownKindsLenient ==
    \A raw \in ProbeRaws :
        ( /\ EnvSupplied(raw)
          /\ FirstField.type \notin
                SignedNames \cup FloatNames \cup UnsignedNames \cup {"bool"} ) =>
            /\ failure.kind = "none"
            /\ target[last.l][FirstField.path] = StrV(raw)

RECURSIVE RunAll(_, _, _, _)
\* the first n hooks of hs run one after the other on fields
RunAll(hs, n, fields, st) ==
    IF n = 0 THEN st
    ELSE LET before == RunAll(hs, n - 1, fields, st)
         IN  IF before.proc # "running" THEN before
             ELSE Run(hs[n], fields, files, environ, args, before)

\* loader l alone in the process, having run its first n hooks
Alone(l, n) ==
    RunAll(registered[l], n, typ[l],
           [tgt |-> pre[l], proc |-> "running", fail |-> "none", formal |-> NoEnv])

\* C10: with two loaders in the process each target ends as it would with
\* its loader alone, and a loader fails only where it would fail alone.
C10_LoadersIsolated ==
    \A l \in loaders :
        /\ Loaded(l) => target[l] = Alone(l, Len(registered[l])).tgt
        /\ (failure.kind # "none" /\ failure.l = l) =>
              Alone(l, Len(registered[l]) - Len(hooks[l])).proc # "running"

====
